---- MODULE Spec2Model ----
(***************************************************************************)
(* Model of apps/time-watcher/main.ts: the horizon polling loop            *)
(* (TimeWatcherService.runPollingLoop), the per-date fetch loop            *)
(* (queryAllDates), the slot filter (queryDateAvailability), the per-date  *)
(* comparison against the previous snapshots, and the JSONL dump file;     *)
(* and of the main flow of apps/bot/main.ts.                               *)
(*                                                                         *)
(* Specifications.  Spec is the polling loop with its signals; LiveSpec   *)
(* is the loop when every fetch and every sleep returns; DelaySpec         *)
(* explores jitteredDelay, CompareSpec one comparison, WindowSpec          *)
(* queryAllDates under any window, SnapshotSpec one snapshot, BodySpec    *)
(* queryDateAvailability over response bodies of any shape, BotSpec the    *)
(* bot.                                                                    *)
(*                                                                         *)
(* Representation.  A calendar date is its day number (today + daysOut);   *)
(* a string is the sequence of its character codes ("0" = 48, ":" = 58);   *)
(* a timestamp is the number of the poll that took it; a raw response is   *)
(* the sequence of the slot entries of its availability days; a record of  *)
(* the dump file is its (ts, date) pair, its bodies being left out.        *)
(***************************************************************************)
EXTENDS Integers, Sequences, FiniteSets, TLC

\* ---- bounds of the exploration ----
MaxRollovers == 1    \* midnights that pass during a run
MaxCycles == 3       \* polls explored when no MAX_POLLS limit stops the run
MaxAppendFailures == 1   \* writes to the dump file that fail during a run
RandomSteps == 8     \* Math.random() returns k / RandomSteps, k in 0..RandomSteps-1
MaxDaysOut == 2      \* LOOKAHEAD_START and LOOKAHEAD_END of a window drawn freely are 0..MaxDaysOut
MaxSlots == 3        \* slot entries of a response whose snapshot is made on its own
MaxDays == 2         \* availability days of a response body explored on its own

\* ---- configuration (main.ts:22-29) ----
\* the window is two days long; MAX_POLLS, when set, is 2
LOOKAHEAD_START == 11
LOOKAHEAD_END == 12
PollLimit == 2
\* defaults of POLL_INTERVAL_MS and POLL_JITTER_MS, floor of jitteredDelay
DefaultIntervalMs == 60000
DefaultJitterMs == 20000
MIN_DELAY_MS == 10000
\* base and spread of the gap between two fetches of a poll
GAP_BASE_MS == 1000
GAP_SPREAD_MS == 2000

VARIABLES
    VENUE_URL,        \* process.env.VENUE_URL, "" when unset or empty
    PARTY_SIZE,       \* process.env.PARTY_SIZE, "" when unset or empty
    DUMP_FILE,        \* TRUE when a dump file is configured
    MAX_POLLS,        \* the limit; 0 is MAX_POLLS=0 as well as an unset MAX_POLLS
                      \* (null): MAX_POLLS && ... is false for both
    pc,               \* "Idle", "Exited" (process.exit(1) of env), "FetchingCycle"
                      \* (a fetch is awaited), "GapSleep", "Sleeping",
                      \* "Stopped" (loop left), "Crashed" (loop threw)
    running,          \* cleared by the shutdown handler
    sigPending,       \* a signal has arrived whose handler has not run yet
    firstPoll,
    pollCount,
    previousByDate,   \* date -> DateSnapshot of the last completed poll
    today,            \* day number of the current local day
    ts,               \* timestamp taken at the start of the current poll
    dateList,         \* dates announced at the start of the current poll
    d,                \* loop index of queryAllDates
    qSnapshots,       \* queryAllDates: snapshots pushed so far
    rawResults,       \* queryAllDates: raw results pushed so far
    snapshots,        \* what queryAllDates returned to the current poll
    cycleLog,         \* per-date log lines written by the current poll
    events,           \* date-release events written by the current poll
    cycleResult,      \* "none", "ok" (try block completed), "error" (catch ran)
    dumpFile,         \* the records of the dump file, in append order
    dumpFailed,       \* appends of the current poll that failed
    failures,         \* appends of the whole run that failed
    fetchLog,         \* the fetches of the current poll: date, daysOut, outcome
    POLL_INTERVAL_MS, \* base of the delay between polls, in ms
    POLL_JITTER_MS,   \* bound of its jitter, in ms
    random,           \* numerator k of the last Math.random() of jitteredDelay, -1 before
    delay,            \* last result of jitteredDelay, in units of 1/RandomSteps ms
    \* the booking bot (apps/bot/main.ts)
    TIME_EARLIEST,    \* "HH:MM"
    TIME_LATEST,      \* "HH:MM"
    botPc,            \* "Boot", "Ready", "Selected", "Locked", "BookingOpen", "Done", "Exited"
    botResponse,      \* what the availability query returned: errors, slots
    botSlots,         \* the slots queryAvailability kept
    chosen,           \* << >> or <<the slot picked>>
    lockCalls,        \* calls of lockSlot
    lock,             \* outcome of the slot lock: "none", "success", "failure", "missing"
    opened,           \* the booking details page was opened
    submitted,        \* "Complete Reservation" was clicked
    exitCode,         \* code of process.exit, -1 before
    exitAt,           \* step that called process.exit, "" before
    \* one comparison on its own
    cmpFirst,         \* firstPoll
    cmpStore,         \* previousByDate
    cmpSnap,          \* the snapshot compared
    cmpOut,           \* the lines and events written for it
    cmpDone,          \* the comparison has run
    \* one call of queryAllDates under any window
    lookaheadStart,   \* Number(LOOKAHEAD_START of the environment)
    lookaheadEnd,     \* Number(LOOKAHEAD_END of the environment)
    qaPc,             \* "Idle", "Loop", "Gap", "Returned", "Threw"
    qaD,              \* the loop variable d
    qaTrace,          \* what the call did so far: fetches and gaps, in order
    \* one snapshot on its own
    responseSlots,    \* the slot entries of a response, in payload order
    snapshot,         \* the snapshot made of them
    snapDone,         \* the snapshot has been made
    \* one response body on its own
    responseBody,     \* what the data source sent, as a JSON value (NotJson: no JSON)
    qdaResult,        \* outcome of queryDateAvailability: threw, or the slots kept
    qdaDone           \* queryDateAvailability has run

vars == <<VENUE_URL, PARTY_SIZE, DUMP_FILE, MAX_POLLS, pc, running, sigPending, firstPoll, pollCount,
          previousByDate, today, ts, dateList, d, qSnapshots, rawResults,
          snapshots, cycleLog, events, cycleResult, dumpFile, dumpFailed,
          failures, fetchLog, POLL_INTERVAL_MS, POLL_JITTER_MS, random, delay,
          TIME_EARLIEST, TIME_LATEST, botPc, botResponse, botSlots, chosen,
          lockCalls, lock, opened, submitted, exitCode, exitAt,
          cmpFirst, cmpStore, cmpSnap, cmpOut, cmpDone,
          lookaheadStart, lookaheadEnd, qaPc, qaD, qaTrace,
          responseSlots, snapshot, snapDone,
          responseBody, qdaResult, qdaDone>>

\* the variables of the delay computation
delayVars == <<POLL_INTERVAL_MS, POLL_JITTER_MS, random, delay>>

\* the required settings
envVars == <<VENUE_URL, PARTY_SIZE>>

\* the variables of the booking bot
botVars == <<TIME_EARLIEST, TIME_LATEST, botPc, botResponse, botSlots, chosen,
             lockCalls, lock, opened, submitted, exitCode, exitAt>>

\* the variables of the comparison on its own
cmpVars == <<cmpFirst, cmpStore, cmpSnap, cmpOut, cmpDone>>

\* the variables of the call of queryAllDates on its own
winVars == <<lookaheadStart, lookaheadEnd, qaPc, qaD, qaTrace>>

\* the variables of the snapshot on its own
snapVars == <<responseSlots, snapshot, snapDone>>

\* the variables of the response body on its own
bodyVars == <<responseBody, qdaResult, qdaDone>>

\* the variables of the polling loop
loopVars == <<DUMP_FILE, MAX_POLLS, pc, running, sigPending, firstPoll, pollCount,
              previousByDate, today, ts, dateList, d, qSnapshots, rawResults,
              snapshots, cycleLog, events, cycleResult, dumpFile, dumpFailed,
              failures, fetchLog>>

\* ---- the data source ----
SlotA == [isAvailable |-> TRUE, typename |-> "AvailableSlot",
          timeOffsetMinutes |-> 1110, slotHash |-> "h1"]
SlotB == [isAvailable |-> TRUE, typename |-> "AvailableSlot",
          timeOffsetMinutes |-> 1080, slotHash |-> "h2"]
SlotC == [isAvailable |-> FALSE, typename |-> "AvailableSlot",
          timeOffsetMinutes |-> 545, slotHash |-> "h3"]
\* the raw responses a fetch may return: no entry, one slot, two slots in
\* either order, one slot listed twice, an unavailable entry alone or first
Responses ==
    {<<>>, <<SlotA>>, <<SlotA, SlotB>>, <<SlotB, SlotA>>, <<SlotA, SlotA>>,
     <<SlotC>>, <<SlotC, SlotA>>}

\* ---- helpers ----
\* String(n) for n >= 0
Digits(n) ==
    LET RECURSIVE Dg(_)
        Dg(k) == IF k < 10 THEN <<48 + k>> ELSE Dg(k \div 10) \o <<48 + (k % 10)>>
    IN Dg(n)

PadStart2(s) == IF Len(s) < 2 THEN <<48>> \o s ELSE s

minutesToTime(mins) ==
    PadStart2(Digits(mins \div 60)) \o <<58>> \o PadStart2(Digits(mins % 60))

\* variant of futureDateStr: the day after the one asked for
futureDateStr_Tomorrow(now, daysFromNow) == now + daysFromNow + 1

\* the local day daysFromNow days after the day "now"
futureDateStr(now, daysFromNow) == now + daysFromNow

DateListAt(now) ==
    [i \in 1..(LOOKAHEAD_END - LOOKAHEAD_START + 1) |->
        futureDateStr(now, LOOKAHEAD_START + i - 1)]

\* variant of IsKept: the kind of the entry is not looked at
IsKept_AvailableOnly(slot) == slot.isAvailable

\* queryDateAvailability: the slots kept from a response
IsKept(slot) == slot.isAvailable /\ slot.typename = "AvailableSlot"
KeptSlots(response) == SelectSeq(response, IsKept)

\* queryAllDates: the snapshot pushed for one date
MakeSnapshot(date, daysOut, slots) ==
    [date |-> date,
     daysOut |-> daysOut,
     slotCount |-> Len(slots),
     slots |-> [i \in 1..Len(slots) |->
                  [time |-> minutesToTime(slots[i].timeOffsetMinutes),
                   hash |-> slots[i].slotHash]]]

TimesOf(slots) == [i \in 1..Len(slots) |-> slots[i].time]
TimeSet(slots) == {slots[i].time : i \in 1..Len(slots)}

\* ---- the per-date comparison (runPollingLoop, main.ts:501-555) ----
\* previousByDate.get(date): <<>> when the date has no entry
Get(store, date) == IF date \in DOMAIN store THEN <<store[date]>> ELSE <<>>

\* variant of Kind: any growth of the slot count is taken for a release
Kind_AnyGrowth(first, prev, snap) ==
    IF first THEN "baseline"
    ELSE IF prev = <<>> THEN "new-date"
    ELSE IF prev[1].slotCount < snap.slotCount THEN "release"
    ELSE IF snap.slotCount # prev[1].slotCount THEN "delta"
    ELSE "unchanged"

\* variant of Kind: a date without an entry is compared as if it had no slots
Kind_MissingIsEmpty(first, prev, snap) ==
    IF first THEN "baseline"
    ELSE IF prev = <<>> /\ snap.slotCount = 0 THEN "new-date"
    ELSE IF (prev = <<>> \/ prev[1].slotCount = 0) /\ snap.slotCount > 0 THEN "release"
    ELSE IF snap.slotCount # prev[1].slotCount THEN "delta"
    ELSE "unchanged"

\* variant of Kind: the slot-count test comes before the release test
Kind_DeltaFirst(first, prev, snap) ==
    IF first THEN "baseline"
    ELSE IF prev = <<>> THEN "new-date"
    ELSE IF snap.slotCount # prev[1].slotCount THEN "delta"
    ELSE IF prev[1].slotCount = 0 /\ snap.slotCount > 0 THEN "release"
    ELSE "unchanged"

\* the branch of the if/else-if chain taken for one snapshot
Kind(first, prev, snap) ==
    IF first THEN "baseline"
    ELSE IF prev = <<>> THEN "new-date"
    ELSE IF prev[1].slotCount = 0 /\ snap.slotCount > 0 THEN "release"
    ELSE IF snap.slotCount # prev[1].slotCount THEN "delta"
    ELSE "unchanged"

\* variant of Added: the two snapshots are taken the wrong way round
Added_Swapped(prevSlots, currSlots) ==
    LET NotNow(s) == s.time \notin TimeSet(currSlots)
    IN TimesOf(SelectSeq(prevSlots, NotNow))

\* snap.slots.filter((s) => !prevTimes.has(s.time)).map((s) => s.time)
Added(prevSlots, currSlots) ==
    LET NotBefore(s) == s.time \notin TimeSet(prevSlots)
    IN TimesOf(SelectSeq(currSlots, NotBefore))

\* variant of Removed: no time is listed as removed
Removed_Nothing(prevSlots, currSlots) == <<>>

\* prev.slots.filter((s) => !currTimes.has(s.time)).map((s) => s.time)
Removed(prevSlots, currSlots) ==
    LET NotNow(s) == s.time \notin TimeSet(currSlots)
    IN TimesOf(SelectSeq(prevSlots, NotNow))

\* variant of ReleaseEvent: the event is stamped when it is written
ReleaseEvent_LateStamp(stamp, snap) ==
    [ts |-> stamp + 1, event |-> "date-release", date |-> snap.date,
     daysOut |-> snap.daysOut, slotCount |-> snap.slotCount,
     slots |-> TimesOf(snap.slots)]

\* the JSON object printed for a release
ReleaseEvent(stamp, snap) ==
    [ts |-> stamp, event |-> "date-release", date |-> snap.date,
     daysOut |-> snap.daysOut, slotCount |-> snap.slotCount,
     slots |-> TimesOf(snap.slots)]

\* a logTs line of the comparison; fields a line does not print are empty
Line(kind, snap, prevCount, added, removed) ==
    [kind |-> kind, date |-> snap.date, daysOut |-> snap.daysOut,
     prevCount |-> prevCount, slotCount |-> snap.slotCount,
     times |-> IF kind = "delta" THEN <<>> ELSE TimesOf(snap.slots),
     added |-> added, removed |-> removed]

\* lines and events the loop body writes for one snapshot
CompareOne(first, store, stamp, snap) ==
    LET prev == Get(store, snap.date)
        kind == Kind(first, prev, snap)
    IN  CASE kind = "baseline" ->
               [lines |-> <<Line("baseline", snap, 0, <<>>, <<>>)>>, events |-> <<>>]
          [] kind = "new-date" ->
               [lines |-> <<Line("new-date", snap, 0, <<>>, <<>>)>>, events |-> <<>>]
          [] kind = "release" ->
               [lines |-> <<Line("release", snap, 0, <<>>, <<>>)>>,
                events |-> <<ReleaseEvent(stamp, snap)>>]
          [] kind = "delta" ->
               [lines |-> <<Line("delta", snap, prev[1].slotCount,
                                 Added(prev[1].slots, snap.slots),
                                 Removed(prev[1].slots, snap.slots))>>,
                events |-> <<>>]
          [] OTHER -> [lines |-> <<>>, events |-> <<>>]

\* for (const snap of snapshots) { ... }
RECURSIVE CompareAll(_, _, _, _)
CompareAll(first, store, stamp, snaps) ==
    IF snaps = <<>> THEN [lines |-> <<>>, events |-> <<>>]
    ELSE LET one == CompareOne(first, store, stamp, Head(snaps))
             rest == CompareAll(first, store, stamp, Tail(snaps))
         IN [lines |-> one.lines \o rest.lines, events |-> one.events \o rest.events]

\* variant of NewMap: the new snapshots are merged into the old map's dates
\* only when they have slots
RECURSIVE NewMap_OpenOnly(_)
NewMap_OpenOnly(snaps) ==
    IF snaps = <<>> THEN <<>>
    ELSE LET n == Len(snaps)
             m == NewMap_OpenOnly(SubSeq(snaps, 1, n - 1))
             last == snaps[n]
         IN IF last.slotCount = 0 THEN m
            ELSE [k \in DOMAIN m \cup {last.date} |-> IF k = last.date THEN last ELSE m[k]]

\* newMap: for (const snap of snapshots) newMap.set(snap.date, snap)
RECURSIVE NewMap(_)
NewMap(snaps) ==
    IF snaps = <<>> THEN <<>>
    ELSE LET n == Len(snaps)
             m == NewMap(SubSeq(snaps, 1, n - 1))
             last == snaps[n]
         IN [k \in DOMAIN m \cup {last.date} |-> IF k = last.date THEN last ELSE m[k]]

\* ---- the dump file (appendDump, main.ts:180-187) ----
\* variant of appendDump: the record is written at the start of the file
appendDump_Prepend(configured, file, record, ok) ==
    IF ~configured THEN [file |-> file, failed |-> 0, thrown |-> FALSE]
    ELSE IF ok THEN [file |-> <<record>> \o file, failed |-> 0, thrown |-> FALSE]
    ELSE [file |-> file, failed |-> 1, thrown |-> FALSE]

\* variant of appendDump: the write is not wrapped in try/catch
appendDump_NoCatch(configured, file, record, ok) ==
    IF ~configured THEN [file |-> file, failed |-> 0, thrown |-> FALSE]
    ELSE IF ok THEN [file |-> Append(file, record), failed |-> 0, thrown |-> FALSE]
    ELSE [file |-> file, failed |-> 1, thrown |-> TRUE]

\* ok: whether appendFileSync succeeds.  thrown: whether the call raises.
appendDump(configured, file, record, ok) ==
    IF ~configured THEN [file |-> file, failed |-> 0, thrown |-> FALSE]
    ELSE IF ok THEN [file |-> Append(file, record), failed |-> 0, thrown |-> FALSE]
    ELSE [file |-> file, failed |-> 1, thrown |-> FALSE]

\* for (const r of rawResults) appendDump({ ts, date, request, response })
RECURSIVE DumpAll(_, _, _, _, _)
DumpAll(configured, file, stamp, raws, oks) ==
    IF raws = <<>> THEN [file |-> file, failed |-> 0, thrown |-> FALSE]
    ELSE LET r == Head(raws)
             one == appendDump(configured, file,
                               [ts |-> stamp, date |-> r.date],
                               Head(oks))
         IN IF one.thrown THEN one
            ELSE LET rest == DumpAll(configured, one.file, stamp, Tail(raws), Tail(oks))
                 IN [file |-> rest.file, failed |-> one.failed + rest.failed,
                     thrown |-> rest.thrown]

\* variant of PcAfterCycle: the next poll follows at once, without the sleep
PcAfterCycle_NoSleep(thrown, run) == IF ~run THEN "Stopped" ELSE "FetchingCycle"

\* variant of PcAfterCycle: the loop is left after every poll
PcAfterCycle_AlwaysStops(thrown, run) == "Stopped"

\* variant of PcAfterCycle: an error leaves the loop
PcAfterCycle_ErrorStops(thrown, run) == IF thrown \/ ~run THEN "Stopped" ELSE "Sleeping"

\* variant of PcAfterCycle: the flag is not looked at before the sleep
PcAfterCycle_AlwaysSleeps(thrown, run) == "Sleeping"

\* where the loop goes after the try/catch: if (!running) break; else sleep
PcAfterCycle(thrown, run) == IF ~run THEN "Stopped" ELSE "Sleeping"

\* ---- the delay between polls (jitteredDelay, main.ts:172-175) ----
Max(a, b) == IF a >= b THEN a ELSE b

\* variant of jitteredDelay: the result is not clamped
jitteredDelay_NoFloor(interval, jitterMs, k) ==
    interval * RandomSteps + (2 * k - RandomSteps) * jitterMs

\* jitter = (Math.random() * 2 - 1) * POLL_JITTER_MS with Math.random() = k / RandomSteps;
\* the result is in units of 1/RandomSteps ms, which keeps it an integer
jitteredDelay(interval, jitterMs, k) ==
    Max(MIN_DELAY_MS * RandomSteps,
        interval * RandomSteps + (2 * k - RandomSteps) * jitterMs)

\* ---- the state machine ----
\* the environments explored: no dump file and no poll limit, or both
Configs == {[dump |-> FALSE, maxPolls |-> 0], [dump |-> TRUE, maxPolls |-> PollLimit]}

NoLocals ==
    /\ d' = LOOKAHEAD_START
    /\ qSnapshots' = <<>>
    /\ rawResults' = <<>>

\* no comparison on its own has been set up
\* the window of the polling loop, and no call of queryAllDates on its own
WinIdle ==
    /\ lookaheadStart = LOOKAHEAD_START
    /\ lookaheadEnd = LOOKAHEAD_END
    /\ qaPc = "Idle"
    /\ qaD = LOOKAHEAD_START
    /\ qaTrace = <<>>

\* JSON values: undefined, null, an object with its members, an array with
\* its elements; NotJson is a body JSON.parse rejects (an empty body)
Undefined == [t |-> "undefined"]
Null == [t |-> "null"]
NotJson == [t |-> "notjson"]
Obj(members) == [t |-> "object", f |-> members]
Arr(elements) == [t |-> "array", e |-> elements]

\* no response body on its own
BodyIdle ==
    /\ responseBody = Null
    /\ qdaResult = [threw |-> FALSE, slots |-> <<>>]
    /\ qdaDone = FALSE

\* no snapshot on its own
SnapIdle ==
    /\ responseSlots = <<>>
    /\ snapshot = MakeSnapshot(LOOKAHEAD_START, LOOKAHEAD_START, <<>>)
    /\ snapDone = FALSE

CmpIdle ==
    /\ cmpFirst = TRUE
    /\ cmpStore = <<>>
    /\ cmpSnap = MakeSnapshot(LOOKAHEAD_START, LOOKAHEAD_START, <<>>)
    /\ cmpOut = [lines |-> <<>>, events |-> <<>>]
    /\ cmpDone = FALSE

\* "18:00" and "18:30" as character codes
T1800 == <<49, 56, 58, 48, 48>>
T1830 == <<49, 56, 58, 51, 48>>

\* the booking bot before it has done anything
BotBoot ==
    /\ botPc = "Boot"
    /\ botResponse = [errors |-> FALSE, slots |-> <<>>]
    /\ botSlots = <<>>
    /\ chosen = <<>>
    /\ lockCalls = 0
    /\ lock = "none"
    /\ opened = FALSE
    /\ submitted = FALSE
    /\ exitCode = -1
    /\ exitAt = ""

\* the locals of runPollingLoop before its first poll
LoopInit ==
    /\ pc = "Idle"
    /\ running = TRUE
    /\ sigPending = FALSE
    /\ firstPoll = TRUE
    /\ pollCount = 0
    /\ previousByDate = <<>>
    /\ today = 0
    /\ ts = 0
    /\ dateList = <<>>
    /\ d = LOOKAHEAD_START
    /\ qSnapshots = <<>>
    /\ rawResults = <<>>
    /\ snapshots = <<>>
    /\ cycleLog = <<>>
    /\ events = <<>>
    /\ cycleResult = "none"
    /\ dumpFile = <<>>
    /\ dumpFailed = 0
    /\ failures = 0
    /\ fetchLog = <<>>

Init ==
    /\ TIME_EARLIEST = T1800 /\ TIME_LATEST = T1830
    /\ BotBoot
    /\ CmpIdle
    /\ WinIdle
    /\ SnapIdle
    /\ BodyIdle
    /\ VENUE_URL \in {"", "https://www.opentable.com/r/venue"}
    /\ PARTY_SIZE \in {"", "2"}
    /\ \E c \in Configs : DUMP_FILE = c.dump /\ MAX_POLLS = c.maxPolls
    /\ LoopInit
    /\ POLL_INTERVAL_MS = DefaultIntervalMs
    /\ POLL_JITTER_MS = DefaultJitterMs
    /\ random = -1
    /\ delay = 0

\* variant of LimitReached: the loop is left one poll late
LimitReached_OneLate(limit, count) == limit # 0 /\ count > limit + 1

\* MAX_POLLS && pollCount > MAX_POLLS, an unset MAX_POLLS being 0
LimitReached(limit, count) == limit # 0 /\ count > limit

\* while (running) { pollCount++; if (MAX_POLLS && pollCount > MAX_POLLS) break;
\* try { ts = nowISO(); dateList = ...; queryAllDates() starts and awaits its
\* first fetch, which lets the handler of a pending signal run
LoopTop ==
    IF ~running
    THEN /\ pc' = "Stopped"
         /\ UNCHANGED <<running, sigPending, pollCount, ts, dateList, snapshots,
                        cycleLog, events, cycleResult, dumpFailed, fetchLog>>
    ELSE /\ pollCount' = pollCount + 1
         /\ IF LimitReached(MAX_POLLS, pollCount')
            THEN /\ pc' = "Stopped"
                 /\ UNCHANGED <<running, sigPending, ts, dateList, snapshots,
                                cycleLog, events, cycleResult, dumpFailed, fetchLog>>
            ELSE /\ pollCount < MaxCycles
                 /\ pc' = "FetchingCycle"
                 /\ running' = ~sigPending
                 /\ sigPending' = FALSE
                 /\ ts' = pollCount'
                 /\ dateList' = DateListAt(today)
                 /\ snapshots' = <<>>
                 /\ cycleLog' = <<>>
                 /\ events' = <<>>
                 /\ cycleResult' = "none"
                 /\ dumpFailed' = 0
                 /\ fetchLog' = <<>>

\* variant of HasRequired: PARTY_SIZE is not asked for
HasRequired_VenueOnly(venue, party) == venue # ""

\* env(k) of both required settings finds a value: if (!v) process.exit(1)
HasRequired(venue, party) == venue # "" /\ party # ""

\* the module is loaded with a required setting missing: env() exits
MissingEnv ==
    /\ pc = "Idle"
    /\ ~HasRequired(VENUE_URL, PARTY_SIZE)
    /\ pc' = "Exited"
    /\ UNCHANGED <<DUMP_FILE, MAX_POLLS, running, sigPending, firstPoll, pollCount,
                   previousByDate, today, ts, dateList, d, qSnapshots, rawResults,
                   snapshots, cycleLog, events, cycleResult, dumpFile, dumpFailed,
                   failures, fetchLog>>
    /\ UNCHANGED <<delayVars, envVars, bodyVars, snapVars, winVars, botVars, cmpVars>>

\* the settings are read, main() runs and runPollingLoop is entered
Start ==
    /\ pc = "Idle"
    /\ HasRequired(VENUE_URL, PARTY_SIZE)
    /\ LoopTop
    /\ NoLocals
    /\ UNCHANGED <<DUMP_FILE, MAX_POLLS, firstPoll, previousByDate,
                   today, dumpFile, failures>>
    /\ UNCHANGED <<delayVars, envVars, bodyVars, snapVars, winVars, botVars, cmpVars>>

\* sleep(delay) returns and the loop goes round
Wake ==
    /\ pc = "Sleeping"
    /\ LoopTop
    /\ NoLocals
    /\ UNCHANGED <<DUMP_FILE, MAX_POLLS, firstPoll, previousByDate,
                   today, dumpFile, failures>>
    /\ UNCHANGED <<delayVars, envVars, bodyVars, snapVars, winVars, botVars, cmpVars>>

\* whether each appendFileSync of a poll succeeds; none is called without a file
WriteOutcomes(n) ==
    IF DUMP_FILE THEN [1..n -> BOOLEAN] ELSE {[i \in 1..n |-> TRUE]}

\* variant of FinishCycle: the new snapshots are merged into the old map
FinishCycle_Merge(snaps, raws, oks) ==
    LET dumped == DumpAll(DUMP_FILE, dumpFile, ts, raws, oks)
        out == CompareAll(firstPoll, previousByDate, ts, snaps)
        new == NewMap(snaps)
    IN  /\ dumpFile' = dumped.file
        /\ dumpFailed' = dumped.failed
        /\ failures' = failures + dumped.failed
        /\ failures' <= MaxAppendFailures
        /\ snapshots' = snaps
        /\ IF dumped.thrown
           THEN /\ cycleResult' = "error"
                /\ UNCHANGED <<cycleLog, events, firstPoll, previousByDate>>
           ELSE /\ cycleResult' = "ok"
                /\ cycleLog' = out.lines
                /\ events' = out.events
                /\ firstPoll' = FALSE
                /\ previousByDate' =
                      [k \in DOMAIN previousByDate \cup DOMAIN new |->
                          IF k \in DOMAIN new THEN new[k] ELSE previousByDate[k]]
        /\ pc' = PcAfterCycle(dumped.thrown, running)

\* variant of FinishCycle: the map is replaced before the comparison reads it
FinishCycle_StoreFirst(snaps, raws, oks) ==
    LET dumped == DumpAll(DUMP_FILE, dumpFile, ts, raws, oks)
        out == CompareAll(firstPoll, NewMap(snaps), ts, snaps)
    IN  /\ dumpFile' = dumped.file
        /\ dumpFailed' = dumped.failed
        /\ failures' = failures + dumped.failed
        /\ failures' <= MaxAppendFailures
        /\ snapshots' = snaps
        /\ IF dumped.thrown
           THEN /\ cycleResult' = "error"
                /\ UNCHANGED <<cycleLog, events, firstPoll, previousByDate>>
           ELSE /\ cycleResult' = "ok"
                /\ cycleLog' = out.lines
                /\ events' = out.events
                /\ firstPoll' = FALSE
                /\ previousByDate' = NewMap(snaps)
        /\ pc' = PcAfterCycle(dumped.thrown, running)

\* the rest of the try block once queryAllDates has returned snaps and raws:
\* dump, compare, clear firstPoll, replace the map
FinishCycle(snaps, raws, oks) ==
    LET dumped == DumpAll(DUMP_FILE, dumpFile, ts, raws, oks)
        out == CompareAll(firstPoll, previousByDate, ts, snaps)
    IN  /\ dumpFile' = dumped.file
        /\ dumpFailed' = dumped.failed
        /\ failures' = failures + dumped.failed
        /\ failures' <= MaxAppendFailures
        /\ snapshots' = snaps
        /\ IF dumped.thrown
           THEN /\ cycleResult' = "error"
                /\ UNCHANGED <<cycleLog, events, firstPoll, previousByDate>>
           ELSE /\ cycleResult' = "ok"
                /\ cycleLog' = out.lines
                /\ events' = out.events
                /\ firstPoll' = FALSE
                /\ previousByDate' = NewMap(snaps)
        /\ pc' = PcAfterCycle(dumped.thrown, running)

\* one pass of the for loop of queryAllDates: the fetch of date today+d returns;
\* before the last date the gap sleep starts, after it the try block goes on
FetchReturns ==
    /\ pc = "FetchingCycle"
    /\ \E response \in Responses :
         LET date == futureDateStr(today, d)
             snap == MakeSnapshot(date, d, KeptSlots(response))
             raw == [date |-> date, response |-> response]
         IN /\ fetchLog' = Append(fetchLog, [date |-> date, daysOut |-> d, ok |-> TRUE])
            /\ IF d < LOOKAHEAD_END
               THEN /\ pc' = "GapSleep"
                    /\ qSnapshots' = Append(qSnapshots, snap)
                    /\ rawResults' = Append(rawResults, raw)
                    /\ UNCHANGED <<d, firstPoll, previousByDate, snapshots, cycleLog,
                                   events, cycleResult, dumpFile, dumpFailed, failures>>
               ELSE /\ \E oks \in WriteOutcomes(Len(rawResults) + 1) :
                          FinishCycle(Append(qSnapshots, snap),
                                      Append(rawResults, raw), oks)
                    /\ NoLocals
    /\ UNCHANGED <<DUMP_FILE, MAX_POLLS, running, sigPending, pollCount, today, ts,
                   dateList>>
    /\ UNCHANGED <<delayVars, envVars, bodyVars, snapVars, winVars, botVars, cmpVars>>

\* variant of FetchThrows: the catch clears firstPoll
FetchThrows_ClearsFlag ==
    /\ pc = "FetchingCycle"
    /\ cycleResult' = "error"
    /\ pc' = PcAfterCycle(TRUE, running)
    /\ fetchLog' = Append(fetchLog, [date |-> futureDateStr(today, d), daysOut |-> d,
                                     ok |-> FALSE])
    /\ NoLocals
    /\ firstPoll' = FALSE
    /\ UNCHANGED <<DUMP_FILE, MAX_POLLS, running, sigPending, pollCount,
                   previousByDate, today, ts, dateList, snapshots, cycleLog,
                   events, dumpFile, dumpFailed, failures>>
    /\ UNCHANGED <<delayVars, envVars, bodyVars, snapVars, winVars, botVars, cmpVars>>

\* variant of FetchThrows: the catch starts over, with an empty map
FetchThrows_StartsOver ==
    /\ pc = "FetchingCycle"
    /\ cycleResult' = "error"
    /\ pc' = PcAfterCycle(TRUE, running)
    /\ fetchLog' = Append(fetchLog, [date |-> futureDateStr(today, d), daysOut |-> d,
                                     ok |-> FALSE])
    /\ NoLocals
    /\ previousByDate' = <<>>
    /\ firstPoll' = TRUE
    /\ UNCHANGED <<DUMP_FILE, MAX_POLLS, running, sigPending, pollCount,
                   today, ts, dateList, snapshots, cycleLog,
                   events, dumpFile, dumpFailed, failures>>
    /\ UNCHANGED <<delayVars, envVars, bodyVars, snapVars, winVars, botVars, cmpVars>>

\* the fetch of date today+d throws: queryAllDates rejects, the catch logs
FetchThrows ==
    /\ pc = "FetchingCycle"
    /\ cycleResult' = "error"
    /\ pc' = PcAfterCycle(TRUE, running)
    /\ fetchLog' = Append(fetchLog, [date |-> futureDateStr(today, d), daysOut |-> d,
                                     ok |-> FALSE])
    /\ NoLocals
    /\ UNCHANGED <<DUMP_FILE, MAX_POLLS, running, sigPending, firstPoll, pollCount,
                   previousByDate, today, ts, dateList, snapshots, cycleLog,
                   events, dumpFile, dumpFailed, failures>>
    /\ UNCHANGED <<delayVars, envVars, bodyVars, snapVars, winVars, botVars, cmpVars>>

\* sleep(gap) returns: d++, and the next fetch is awaited, which lets the
\* handler of a pending signal run
GapEnds ==
    /\ pc = "GapSleep"
    /\ pc' = "FetchingCycle"
    /\ d' = d + 1
    /\ running' = (running /\ ~sigPending)
    /\ sigPending' = FALSE
    /\ UNCHANGED <<DUMP_FILE, MAX_POLLS, firstPoll, pollCount, previousByDate,
                   today, ts, dateList, qSnapshots, rawResults, snapshots,
                   cycleLog, events, cycleResult, dumpFile, dumpFailed, failures,
                   fetchLog>>
    /\ UNCHANGED <<delayVars, envVars, bodyVars, snapVars, winVars, botVars, cmpVars>>

\* SIGINT or SIGTERM arrives while a fetch is awaited: the handler runs.
\* One signal is explored per run.
Shutdown ==
    /\ pc = "FetchingCycle"
    /\ running
    /\ running' = FALSE
    /\ UNCHANGED <<DUMP_FILE, MAX_POLLS, pc, sigPending, firstPoll, pollCount, previousByDate,
                   today, ts, dateList, d, qSnapshots, rawResults, snapshots,
                   cycleLog, events, cycleResult, dumpFile, dumpFailed, failures,
                   fetchLog>>
    /\ UNCHANGED <<delayVars, envVars, bodyVars, snapVars, winVars, botVars, cmpVars>>

\* The signal arrives during sleep(ms), which is execSync("sleep ..."): the
\* event loop is blocked, so the handler is put off to the next await; the
\* signal was sent to this process alone and the sleep goes on.
SignalDeferred ==
    /\ pc \in {"GapSleep", "Sleeping"}
    /\ running /\ ~sigPending
    /\ sigPending' = TRUE
    /\ UNCHANGED <<DUMP_FILE, MAX_POLLS, pc, running, firstPoll, pollCount, previousByDate,
                   today, ts, dateList, d, qSnapshots, rawResults, snapshots,
                   cycleLog, events, cycleResult, dumpFile, dumpFailed, failures,
                   fetchLog>>
    /\ UNCHANGED <<delayVars, envVars, bodyVars, snapVars, winVars, botVars, cmpVars>>

\* The signal arrives during sleep(ms) and reaches the child process too
\* (Ctrl+C signals the whole foreground process group): the child dies and
\* execSync throws, the handler still being put off.  In the gap the catch
\* of the poll takes the error and the loop goes on to its sleep; in the
\* sleep between polls nothing catches it and runPollingLoop rejects.
SleepKilled ==
    /\ pc \in {"GapSleep", "Sleeping"}
    /\ running /\ ~sigPending
    /\ sigPending' = TRUE
    /\ IF pc = "GapSleep"
       THEN /\ cycleResult' = "error"
            /\ pc' = PcAfterCycle(TRUE, running)
       ELSE /\ pc' = "Crashed"
            /\ UNCHANGED cycleResult
    /\ NoLocals
    /\ UNCHANGED <<DUMP_FILE, MAX_POLLS, running, firstPoll, pollCount, previousByDate,
                   today, ts, dateList, snapshots, cycleLog, events, dumpFile,
                   dumpFailed, failures, fetchLog>>
    /\ UNCHANGED <<delayVars, envVars, bodyVars, snapVars, winVars, botVars, cmpVars>>

\* local midnight passes.  The date of a fetch is taken before the fetch is
\* awaited (main.ts:426), so a midnight during the await shows in the
\* following fetch only, like one during the gap or the sleep after it.
Midnight ==
    /\ pc \in {"GapSleep", "Sleeping"}
    /\ today < MaxRollovers
    /\ today' = today + 1
    /\ UNCHANGED <<DUMP_FILE, MAX_POLLS, pc, running, sigPending, firstPoll, pollCount,
                   previousByDate, ts, dateList, d, qSnapshots, rawResults,
                   snapshots, cycleLog, events, cycleResult, dumpFile, dumpFailed,
                   failures, fetchLog>>
    /\ UNCHANGED <<delayVars, envVars, bodyVars, snapVars, winVars, botVars, cmpVars>>

Next ==
    \/ MissingEnv \/ Start \/ Wake \/ FetchReturns \/ GapEnds \/ FetchThrows
    \/ Shutdown \/ SignalDeferred \/ SleepKilled \/ Midnight

Spec == Init /\ [][Next]_vars

\* ---- runs in which every fetch and every sleep returns ----
\* No sleep is killed; the loop is started, each sleep returns (Wake,
\* GapEnds) and each fetch settles (FetchReturns, FetchThrows).  The loop is
\* in one place at a time, so these steps are enabled one at a time and
\* their fairness is that of LoopStep.  When a signal or midnight comes is
\* left open.
LoopStep == Start \/ Wake \/ GapEnds \/ FetchReturns \/ FetchThrows

LiveNext ==
    \/ MissingEnv \/ Start \/ Wake \/ FetchReturns \/ GapEnds \/ FetchThrows
    \/ Shutdown \/ SignalDeferred \/ Midnight

LiveSpec == Init /\ [][LiveNext]_vars /\ WF_vars(LoopStep)

\* ---- the delay computation on its own ----
\* The length of a sleep has no effect on the state of the loop, so Spec
\* leaves delay alone; DelaySpec explores jitteredDelay over the settings
\* below and every value of Math.random().
Intervals == {0, 5000, MIN_DELAY_MS, 30000, DefaultIntervalMs}
Jitters == {0, 5000, DefaultJitterMs, DefaultIntervalMs}

DelayInit ==
    /\ TIME_EARLIEST = T1800 /\ TIME_LATEST = T1830
    /\ BotBoot
    /\ CmpIdle
    /\ WinIdle
    /\ SnapIdle
    /\ BodyIdle
    /\ POLL_INTERVAL_MS \in Intervals
    /\ POLL_JITTER_MS \in Jitters
    /\ random = -1
    /\ delay = 0
    /\ VENUE_URL = "https://www.opentable.com/r/venue"
    /\ PARTY_SIZE = "2"
    /\ DUMP_FILE = FALSE /\ MAX_POLLS = 0
    /\ pc = "Sleeping"
    /\ running = TRUE
    /\ sigPending = FALSE
    /\ firstPoll = TRUE
    /\ pollCount = 1
    /\ previousByDate = <<>>
    /\ today = 0
    /\ ts = 1
    /\ dateList = DateListAt(0)
    /\ d = LOOKAHEAD_START
    /\ qSnapshots = <<>>
    /\ rawResults = <<>>
    /\ snapshots = <<>>
    /\ cycleLog = <<>>
    /\ events = <<>>
    /\ cycleResult = "error"
    /\ dumpFile = <<>>
    /\ dumpFailed = 0
    /\ failures = 0
    /\ fetchLog = <<>>

\* const delay = jitteredDelay()
ComputeDelay ==
    /\ pc = "Sleeping"
    /\ \E k \in 0..(RandomSteps - 1) :
         /\ random' = k
         /\ delay' = jitteredDelay(POLL_INTERVAL_MS, POLL_JITTER_MS, k)
    /\ UNCHANGED <<DUMP_FILE, MAX_POLLS, pc, running, sigPending, firstPoll, pollCount,
                   previousByDate, today, ts, dateList, d, qSnapshots, rawResults,
                   snapshots, cycleLog, events, cycleResult, dumpFile, dumpFailed,
                   failures, fetchLog, POLL_INTERVAL_MS, POLL_JITTER_MS>>
    /\ UNCHANGED <<envVars, bodyVars, snapVars, winVars, botVars, cmpVars>>

DelayNext == ComputeDelay

DelaySpec == DelayInit /\ [][DelayNext]_vars


\* ---- the booking bot (apps/bot/main.ts) ----
\* Number(s) of a string of decimal digits ("" gives 0)
RECURSIVE ToNumber(_)
ToNumber(s) ==
    IF s = <<>> THEN 0
    ELSE ToNumber(SubSeq(s, 1, Len(s) - 1)) * 10 + (s[Len(s)] - 48)

\* const [h, m] = hhmm.split(":").map(Number); return h * 60 + m
parseTimeToMinutes(hhmm) ==
    LET colon == CHOOSE i \in 1..Len(hhmm) :
                     hhmm[i] = 58 /\ \A j \in 1..(i - 1) : hhmm[j] # 58
    IN ToNumber(SubSeq(hhmm, 1, colon - 1)) * 60
         + ToNumber(SubSeq(hhmm, colon + 1, Len(hhmm)))

\* variant of InTimeRange: the latest time itself is left out
InTimeRange_BeforeLatest(slot, earliestMin, latestMin) ==
    /\ slot.isAvailable
    /\ slot.typename = "AvailableSlot"
    /\ slot.timeOffsetMinutes >= earliestMin
    /\ slot.timeOffsetMinutes < latestMin

\* the condition under which queryAvailability keeps a slot
InTimeRange(slot, earliestMin, latestMin) ==
    /\ slot.isAvailable
    /\ slot.typename = "AvailableSlot"
    /\ slot.timeOffsetMinutes >= earliestMin
    /\ slot.timeOffsetMinutes <= latestMin

\* an available entry of another kind
SlotW == [isAvailable |-> TRUE, typename |-> "OtherSlot",
          timeOffsetMinutes |-> 1110, slotHash |-> "h4"]

BotResponses ==
    {<<>>, <<SlotA>>, <<SlotB>>, <<SlotA, SlotB>>, <<SlotB, SlotA>>, <<SlotC, SlotA>>,
     <<SlotW, SlotB>>, <<SlotC>>, <<SlotW>>}

\* TIME_EARLIEST and TIME_LATEST: 18:00-18:30, 18:30-18:30, 18:00-18:00,
\* 18:01-18:29, 19:00-21:00
TimeRanges ==
    {<<T1800, T1830>>, <<T1830, T1830>>, <<T1800, T1800>>,
     <<<<49, 56, 58, 48, 49>>, <<49, 56, 58, 50, 57>>>>,
     <<<<49, 57, 58, 48, 48>>, <<50, 49, 58, 48, 48>>>>}

\* the watcher with its settings read and its loop not entered
IdleWatcher ==
    /\ VENUE_URL = "https://www.opentable.com/r/venue"
    /\ PARTY_SIZE = "2"
    /\ DUMP_FILE = FALSE /\ MAX_POLLS = 0
    /\ LoopInit

BotInit ==
    /\ \E r \in TimeRanges : TIME_EARLIEST = r[1] /\ TIME_LATEST = r[2]
    /\ BotBoot
    /\ CmpIdle
    /\ WinIdle
    /\ SnapIdle
    /\ BodyIdle
    /\ IdleWatcher
    /\ POLL_INTERVAL_MS = DefaultIntervalMs
    /\ POLL_JITTER_MS = DefaultJitterMs
    /\ random = -1
    /\ delay = 0

BotExit(code, step) ==
    /\ botPc' = "Exited"
    /\ exitCode' = code
    /\ exitAt' = step

\* steps 1-4: browser, login, restaurant id (exit 1 when none is found), cookies
BotPrepare ==
    /\ botPc = "Boot"
    /\ \E found \in BOOLEAN :
         IF found THEN botPc' = "Ready" /\ UNCHANGED <<exitCode, exitAt>>
         ELSE BotExit(1, "navigateAndExtractId")
    /\ UNCHANGED <<TIME_EARLIEST, TIME_LATEST, botResponse, botSlots, chosen,
                   lockCalls, lock, opened, submitted>>
    /\ UNCHANGED <<loopVars, delayVars, envVars, bodyVars, snapVars, winVars, cmpVars>>

\* step 5 and the choice: queryAvailability, exit 0 on no slot, chosen = slots[0]
BotQueryAvailability ==
    /\ botPc = "Ready"
    /\ \E r \in BotResponses, err \in BOOLEAN :
         LET earliestMin == parseTimeToMinutes(TIME_EARLIEST)
             latestMin == parseTimeToMinutes(TIME_LATEST)
             keep(slot) == InTimeRange(slot, earliestMin, latestMin)
             kept == SelectSeq(r, keep)
         IN /\ botResponse' = [errors |-> err, slots |-> r]
            /\ IF err
               THEN /\ BotExit(1, "queryAvailability")
                    /\ UNCHANGED <<botSlots, chosen>>
               ELSE /\ botSlots' = kept
                    /\ IF Len(kept) = 0
                       THEN BotExit(0, "main") /\ UNCHANGED chosen
                       ELSE /\ botPc' = "Selected"
                            /\ chosen' = <<kept[1]>>
                            /\ UNCHANGED <<exitCode, exitAt>>
    /\ UNCHANGED <<TIME_EARLIEST, TIME_LATEST, lockCalls, lock, opened, submitted>>
    /\ UNCHANGED <<loopVars, delayVars, envVars, bodyVars, snapVars, winVars, cmpVars>>

\* step 6: lockSlot(chosen); exit 1 when the response carries errors
BotLockSlot ==
    /\ botPc = "Selected"
    /\ lockCalls' = lockCalls + 1
    /\ \E outcome \in {"errors", "success", "failure", "missing"} :
         IF outcome = "errors"
         THEN BotExit(1, "lockSlot") /\ UNCHANGED lock
         ELSE botPc' = "Locked" /\ lock' = outcome /\ UNCHANGED <<exitCode, exitAt>>
    /\ UNCHANGED <<TIME_EARLIEST, TIME_LATEST, botResponse, botSlots, chosen,
                   opened, submitted>>
    /\ UNCHANGED <<loopVars, delayVars, envVars, bodyVars, snapVars, winVars, cmpVars>>

\* step 7: the booking URL is built and opened in the browser
BotOpenBooking ==
    /\ botPc = "Locked"
    /\ botPc' = "BookingOpen"
    /\ opened' = TRUE
    /\ UNCHANGED <<TIME_EARLIEST, TIME_LATEST, botResponse, botSlots, chosen,
                   lockCalls, lock, submitted, exitCode, exitAt>>
    /\ UNCHANGED <<loopVars, delayVars, envVars, bodyVars, snapVars, winVars, cmpVars>>

\* step 8: terms accepted, "Complete Reservation" clicked when the button is there
BotComplete ==
    /\ botPc = "BookingOpen"
    /\ botPc' = "Done"
    /\ submitted' \in BOOLEAN
    /\ UNCHANGED <<TIME_EARLIEST, TIME_LATEST, botResponse, botSlots, chosen,
                   lockCalls, lock, opened, exitCode, exitAt>>
    /\ UNCHANGED <<loopVars, delayVars, envVars, bodyVars, snapVars, winVars, cmpVars>>

BotNext ==
    BotPrepare \/ BotQueryAvailability \/ BotLockSlot \/ BotOpenBooking \/ BotComplete

BotSpec == BotInit /\ [][BotNext]_vars

\* ---- one comparison on its own ----
\* CompareSpec applies the loop body of the comparison to one snapshot of the
\* date today+LOOKAHEAD_START, for each value of firstPoll and each map the
\* loop can hold then: empty, holding another date only, or holding the date.
ComparePayloads == Responses \cup {<<SlotB>>}

CompareSnapshots(date) ==
    {MakeSnapshot(date, LOOKAHEAD_START, KeptSlots(r)) : r \in ComparePayloads}

CompareStores(date) ==
    {<<>>}
    \cup {[k \in {date + 1} |-> q] : q \in CompareSnapshots(date + 1)}
    \cup {[k \in {date} |-> q] : q \in CompareSnapshots(date)}

CompareInit ==
    /\ cmpFirst \in BOOLEAN
    /\ cmpStore \in CompareStores(LOOKAHEAD_START)
    /\ cmpFirst => cmpStore = <<>>
    /\ cmpSnap \in CompareSnapshots(LOOKAHEAD_START)
    /\ cmpOut = [lines |-> <<>>, events |-> <<>>]
    /\ cmpDone = FALSE
    /\ TIME_EARLIEST = T1800 /\ TIME_LATEST = T1830
    /\ BotBoot
    /\ WinIdle
    /\ SnapIdle
    /\ BodyIdle
    /\ IdleWatcher
    /\ POLL_INTERVAL_MS = DefaultIntervalMs
    /\ POLL_JITTER_MS = DefaultJitterMs
    /\ random = -1
    /\ delay = 0

\* one pass of for (const snap of snapshots) { ... }
ComparesOne ==
    /\ ~cmpDone
    /\ cmpOut' = CompareOne(cmpFirst, cmpStore, 1, cmpSnap)
    /\ cmpDone' = TRUE
    /\ UNCHANGED <<cmpFirst, cmpStore, cmpSnap>>
    /\ UNCHANGED <<loopVars, delayVars, envVars, bodyVars, snapVars, winVars, botVars>>

CompareNext == ComparesOne

CompareSpec == CompareInit /\ [][CompareNext]_vars

\* ---- queryAllDates on its own, under any window (main.ts:418-450) ----
\* LOOKAHEAD_START and LOOKAHEAD_END are Number(...) of what the environment
\* holds; nothing compares them before the loop runs.
WindowDays == 0..MaxDaysOut

\* variant of GapFollows: a gap follows every fetch
GapFollows_Always(dd, end) == TRUE

\* if (d < LOOKAHEAD_END): a gap follows the fetch of d
GapFollows(dd, end) == dd < end

\* const gap = 1000 + Math.random() * 2000, Math.random() being k/RandomSteps
gap(k) == GAP_BASE_MS + (k * GAP_SPREAD_MS) \div RandomSteps

WindowInit ==
    /\ lookaheadStart \in WindowDays
    /\ lookaheadEnd \in WindowDays
    /\ qaPc = "Idle"
    /\ qaD = lookaheadStart
    /\ qaTrace = <<>>
    /\ SnapIdle
    /\ BodyIdle
    /\ TIME_EARLIEST = T1800 /\ TIME_LATEST = T1830
    /\ BotBoot
    /\ CmpIdle
    /\ IdleWatcher
    /\ POLL_INTERVAL_MS = DefaultIntervalMs
    /\ POLL_JITTER_MS = DefaultJitterMs
    /\ random = -1
    /\ delay = 0

\* await this.queryAllDates(): let d = LOOKAHEAD_START
QueryAllDates ==
    /\ qaPc \in {"Idle", "Returned", "Threw"}
    /\ qaPc' = "Loop"
    /\ qaD' = lookaheadStart
    /\ qaTrace' = <<>>
    /\ UNCHANGED <<lookaheadStart, lookaheadEnd>>
    /\ UNCHANGED <<loopVars, delayVars, envVars, bodyVars, snapVars, botVars, cmpVars>>

\* one pass of the loop whose fetch returns: the gap if one follows, else d++
PassReturns ==
    /\ qaPc = "Loop"
    /\ qaD <= lookaheadEnd
    /\ qaTrace' = Append(qaTrace, [kind |-> "fetch", d |-> qaD, ms |-> 0])
    /\ IF GapFollows(qaD, lookaheadEnd)
       THEN qaPc' = "Gap" /\ qaD' = qaD
       ELSE qaPc' = "Loop" /\ qaD' = qaD + 1
    /\ UNCHANGED <<lookaheadStart, lookaheadEnd>>
    /\ UNCHANGED <<loopVars, delayVars, envVars, bodyVars, snapVars, botVars, cmpVars>>

\* the fetch of a pass throws: the call rejects
PassThrows ==
    /\ qaPc = "Loop"
    /\ qaD <= lookaheadEnd
    /\ qaTrace' = Append(qaTrace, [kind |-> "fetch", d |-> qaD, ms |-> 0])
    /\ qaPc' = "Threw"
    /\ UNCHANGED <<lookaheadStart, lookaheadEnd, qaD>>
    /\ UNCHANGED <<loopVars, delayVars, envVars, bodyVars, snapVars, botVars, cmpVars>>

\* sleep(gap), then d++
GapSleeps ==
    /\ qaPc = "Gap"
    /\ \E k \in 0..(RandomSteps - 1) :
         qaTrace' = Append(qaTrace, [kind |-> "gap", d |-> qaD, ms |-> gap(k)])
    /\ qaPc' = "Loop"
    /\ qaD' = qaD + 1
    /\ UNCHANGED <<lookaheadStart, lookaheadEnd>>
    /\ UNCHANGED <<loopVars, delayVars, envVars, bodyVars, snapVars, botVars, cmpVars>>

\* d <= LOOKAHEAD_END is false: return { snapshots, rawResults }
QueryReturns ==
    /\ qaPc = "Loop"
    /\ ~(qaD <= lookaheadEnd)
    /\ qaPc' = "Returned"
    /\ UNCHANGED <<lookaheadStart, lookaheadEnd, qaD, qaTrace>>
    /\ UNCHANGED <<loopVars, delayVars, envVars, bodyVars, snapVars, botVars, cmpVars>>

WindowNext == QueryAllDates \/ PassReturns \/ PassThrows \/ GapSleeps \/ QueryReturns

WindowSpec == WindowInit /\ [][WindowNext]_vars

\* ---- one snapshot on its own (main.ts:399-410, 432-440) ----
\* entries a response may carry besides SlotA, SlotB and SlotC: one marked
\* available that is of another kind, and an available slot at midnight
SlotD == [isAvailable |-> TRUE, typename |-> "UnavailableSlot",
          timeOffsetMinutes |-> 1140, slotHash |-> "h4"]
SlotE == [isAvailable |-> TRUE, typename |-> "AvailableSlot",
          timeOffsetMinutes |-> 5, slotHash |-> "h5"]
SlotKinds == {SlotA, SlotB, SlotC, SlotD, SlotE}

\* every response of up to MaxSlots entries
SlotLists == UNION {[1..n -> SlotKinds] : n \in 0..MaxSlots}

SnapshotInit ==
    /\ responseSlots \in SlotLists
    /\ snapshot = MakeSnapshot(LOOKAHEAD_START, LOOKAHEAD_START, <<>>)
    /\ snapDone = FALSE
    /\ BodyIdle
    /\ WinIdle
    /\ TIME_EARLIEST = T1800 /\ TIME_LATEST = T1830
    /\ BotBoot
    /\ CmpIdle
    /\ IdleWatcher
    /\ POLL_INTERVAL_MS = DefaultIntervalMs
    /\ POLL_JITTER_MS = DefaultJitterMs
    /\ random = -1
    /\ delay = 0

\* the slots of the response are filtered and the snapshot is pushed
SnapshotsOne ==
    /\ ~snapDone
    /\ snapshot' = MakeSnapshot(LOOKAHEAD_START, LOOKAHEAD_START, KeptSlots(responseSlots))
    /\ snapDone' = TRUE
    /\ UNCHANGED responseSlots
    /\ UNCHANGED <<loopVars, delayVars, envVars, bodyVars, winVars, botVars, cmpVars>>

SnapshotNext == SnapshotsOne

SnapshotSpec == SnapshotInit /\ [][SnapshotNext]_vars

\* ---- one response body on its own (main.ts:109-147, 386-410) ----
Nullish(v) == v.t \in {"undefined", "null"}

\* v.k: a TypeError on undefined and null, undefined when v has no such member
Throws == [t |-> "throws"]
Member(v, k) ==
    IF Nullish(v) THEN Throws
    ELSE IF v.t = "object" /\ k \in DOMAIN v.f THEN v.f[k]
    ELSE Undefined

\* v?.k
OptMember(v, k) == IF Nullish(v) THEN Undefined ELSE Member(v, k)

\* v?.[0]
OptFirst(v) ==
    IF Nullish(v) THEN Undefined
    ELSE IF v.t = "array" /\ Len(v.e) >= 1 THEN v.e[1]
    ELSE Undefined

\* responseBody.data?.availability?.[0]?.availabilityDays ?? []
AvailabilityDays(body) ==
    LET data == Member(body, "data")
    IN IF data = Throws THEN Throws
       ELSE LET days == OptMember(OptFirst(OptMember(data, "availability")),
                                  "availabilityDays")
            IN IF Nullish(days) THEN Arr(<<>>) ELSE days

\* for (const day of days) for (const slot of day.slots ?? []) ...: the slot
\* entries of all days in order; threw when a day is null or undefined
RECURSIVE SlotsOfDays(_)
SlotsOfDays(days) ==
    IF Len(days) = 0 THEN [threw |-> FALSE, slots |-> <<>>]
    ELSE LET slots == Member(Head(days), "slots")
             rest == SlotsOfDays(Tail(days))
         IN IF slots = Throws \/ rest.threw THEN [threw |-> TRUE, slots |-> <<>>]
            ELSE IF Nullish(slots) THEN rest
            ELSE [threw |-> FALSE, slots |-> slots.e \o rest.slots]

\* queryDateAvailability from the response on: res.json() rejects a body
\* that is no JSON; else the slots kept of every day
queryDateAvailability(body) ==
    IF body = NotJson THEN [threw |-> TRUE, slots |-> <<>>]
    ELSE LET days == AvailabilityDays(body)
         IN IF days = Throws THEN [threw |-> TRUE, slots |-> <<>>]
            ELSE LET all == SlotsOfDays(days.e)
                 IN IF all.threw THEN [threw |-> TRUE, slots |-> <<>>]
                    ELSE [threw |-> FALSE, slots |-> KeptSlots(all.slots)]

\* a day with its slot entries, and the body of the expected shape
Day(slots) == Obj([slots |-> Arr(slots)])
Body(days) == Obj([data |-> Obj([availability |->
                    Arr(<<Obj([availabilityDays |-> Arr(days)])>>)])])

\* bodies that miss a level of the expected nesting
OddBodies ==
    {NotJson, Null,
     Obj([errors |-> Arr(<<>>)]),
     Obj([data |-> Null]),
     Obj([data |-> Obj([errors |-> Arr(<<>>)])]),
     Obj([data |-> Obj([availability |-> Null])]),
     Obj([data |-> Obj([availability |-> Arr(<<>>)])]),
     Obj([data |-> Obj([availability |-> Arr(<<Null>>)])]),
     Obj([data |-> Obj([availability |-> Arr(<<Obj([errors |-> Arr(<<>>)])>>)])]),
     Body(<<Obj([errors |-> Arr(<<>>)])>>)}

\* bodies of the expected shape: up to MaxDays days of up to one entry each
DayLists == UNION {[1..n -> {Day(l) : l \in {<<>>} \cup {<<k>> : k \in SlotKinds}}]
                   : n \in 0..MaxDays}
Bodies == OddBodies \cup {Body(days) : days \in DayLists}

BodyInit ==
    /\ responseBody \in Bodies
    /\ qdaResult = [threw |-> FALSE, slots |-> <<>>]
    /\ qdaDone = FALSE
    /\ SnapIdle
    /\ WinIdle
    /\ TIME_EARLIEST = T1800 /\ TIME_LATEST = T1830
    /\ BotBoot
    /\ CmpIdle
    /\ IdleWatcher
    /\ POLL_INTERVAL_MS = DefaultIntervalMs
    /\ POLL_JITTER_MS = DefaultJitterMs
    /\ random = -1
    /\ delay = 0

\* the response has arrived: res.json(), then the filter
BodyArrives ==
    /\ ~qdaDone
    /\ qdaResult' = queryDateAvailability(responseBody)
    /\ qdaDone' = TRUE
    /\ UNCHANGED responseBody
    /\ UNCHANGED <<loopVars, delayVars, envVars, snapVars, winVars, botVars, cmpVars>>

BodyNext == BodyArrives

BodySpec == BodyInit /\ [][BodyNext]_vars

\* ---- properties ----
\* the step in which a poll's try block runs to its end
Completes == pc = "FetchingCycle" /\ cycleResult' = "ok"

\* the hashes of a snapshot's slots, as a set
HashSet(slots) == {slots[i].hash : i \in 1..Len(slots)}

\* positions of the events / lines written for a date
EventsFor(date, evs) == {j \in 1..Len(evs) : evs[j].date = date}
LinesFor(date, lines) == {j \in 1..Len(lines) : lines[j].date = date}

\* C1: in a poll after the baseline, a date-release event is written for a
\* fetched date exactly when the map holds a snapshot of that date with
\* slotCount 0 and the new snapshot has slotCount > 0; then it is written once
\* and carries the number of slots of the new snapshot.
C1_ReleaseIff ==
    [][(Completes /\ ~firstPoll) =>
         /\ \A i \in 1..Len(snapshots') :
              LET s == snapshots'[i]
                  edge == /\ s.date \in DOMAIN previousByDate
                          /\ previousByDate[s.date].slotCount = 0
                          /\ s.slotCount > 0
              IN /\ Cardinality(EventsFor(s.date, events')) = IF edge THEN 1 ELSE 0
                 /\ \A j \in EventsFor(s.date, events') :
                        /\ events'[j].event = "date-release"
                        /\ events'[j].slotCount = Len(s.slots)
         /\ \A j \in 1..Len(events') :
              \E i \in 1..Len(snapshots') : snapshots'[i].date = events'[j].date
      ]_vars

\* a completed later poll wrote an event for one date and none for another
\* date that has slots
C1_Witness ==
    /\ cycleResult = "ok"
    /\ pollCount >= 2
    /\ Len(events) = 1
    /\ \E i \in 1..Len(snapshots) :
         snapshots[i].slotCount > 0 /\ EventsFor(snapshots[i].date, events) = {}

\* a < b as strings (code units compared left to right, a prefix first)
RECURSIVE StrLess(_, _)
StrLess(a, b) ==
    IF b = <<>> THEN FALSE
    ELSE IF a = <<>> THEN TRUE
    ELSE IF Head(a) # Head(b) THEN Head(a) < Head(b)
    ELSE StrLess(Tail(a), Tail(b))

\* the strings of a list in ascending order
RECURSIVE SortedList(_)
SortedList(list) ==
    IF list = <<>> THEN <<>>
    ELSE LET least == CHOOSE i \in 1..Len(list) :
                        \A k \in 1..Len(list) : ~StrLess(list[k], list[i])
             rest == [k \in 1..(Len(list) - 1) |->
                        IF k < least THEN list[k] ELSE list[k + 1]]
         IN <<list[least]>> \o SortedList(rest)

\* C2: the slot times of a release event are the sorted times of the new
\* snapshot's slots, in whatever order the data source listed the slots.
C2_EventTimesSorted ==
    cycleResult = "ok" =>
        \A j \in 1..Len(events) :
          \A i \in 1..Len(snapshots) :
             snapshots[i].date = events[j].date =>
                events[j].slots = SortedList(TimesOf(snapshots[i].slots))

\* C3: in a poll that is not the first, a date without an entry in the map is
\* logged as a new date and gets no release event, with or without slots.
C3_NewDateNeverRelease ==
    [][(Completes /\ ~firstPoll) =>
         \A i \in 1..Len(snapshots') :
            LET s == snapshots'[i]
            IN s.date \notin DOMAIN previousByDate =>
                 /\ EventsFor(s.date, events') = {}
                 /\ \A j \in LinesFor(s.date, cycleLog') : cycleLog'[j].kind = "new-date"
                 /\ Cardinality(LinesFor(s.date, cycleLog')) = 1
      ]_vars

\* a date rolled into the window with slots already present
C3_Witness ==
    /\ cycleResult = "ok"
    /\ \E j \in 1..Len(cycleLog) :
         /\ cycleLog[j].kind = "new-date"
         /\ cycleLog[j].slotCount > 0
         /\ EventsFor(cycleLog[j].date, events) = {}

\* C4: the first poll writes no release event, and when it completes the map,
\* empty until then, holds exactly that poll's snapshot for each fetched date.
C4_Baseline ==
    pollCount = 1 =>
        /\ events = <<>>
        /\ cycleResult # "ok" => previousByDate = <<>>
        /\ cycleResult = "ok" =>
             /\ DOMAIN previousByDate = {snapshots[i].date : i \in 1..Len(snapshots)}
             /\ \A i \in 1..Len(snapshots) :
                  previousByDate[snapshots[i].date] = snapshots[i]
             /\ \A i \in 1..Len(fetchLog) :
                  fetchLog[i].ok /\ fetchLog[i].date \in DOMAIN previousByDate
             /\ \A j \in 1..Len(cycleLog) : cycleLog[j].kind = "baseline"

\* the first poll completed and saw slots on one date and none on another
C4_Witness ==
    /\ pollCount = 1
    /\ cycleResult = "ok"
    /\ \E i, k \in 1..Len(snapshots) :
         snapshots[i].slotCount > 0 /\ snapshots[k].slotCount = 0

\* C5: a date whose new snapshot has the same set of slot hashes as its
\* snapshot in the map gets no log line and no event.
C5_SameHashesSilent ==
    [][Completes =>
         \A i \in 1..Len(snapshots') :
            LET s == snapshots'[i]
            IN (/\ s.date \in DOMAIN previousByDate
                /\ HashSet(previousByDate[s.date].slots) = HashSet(s.slots)) =>
                 /\ LinesFor(s.date, cycleLog') = {}
                 /\ EventsFor(s.date, events') = {}
      ]_vars

\* C6: a date whose slot count differs from that of its snapshot in the map,
\* other than from 0 to N, gets one delta line; its added list holds exactly
\* the times present now and absent before, its removed list exactly the times
\* present before and absent now, and the line is written also when both
\* lists are empty.
C6_DeltaLists ==
    [][Completes =>
         \A i \in 1..Len(snapshots') :
            LET s == snapshots'[i]
            IN (/\ s.date \in DOMAIN previousByDate
                /\ previousByDate[s.date].slotCount # s.slotCount
                /\ ~(previousByDate[s.date].slotCount = 0 /\ s.slotCount > 0)) =>
                 LET before == TimeSet(previousByDate[s.date].slots)
                     now == TimeSet(s.slots)
                 IN /\ Cardinality(LinesFor(s.date, cycleLog')) = 1
                    /\ EventsFor(s.date, events') = {}
                    /\ \A j \in LinesFor(s.date, cycleLog') :
                         LET line == cycleLog'[j]
                         IN /\ line.kind = "delta"
                            /\ line.prevCount = previousByDate[s.date].slotCount
                            /\ line.slotCount = s.slotCount
                            /\ {line.added[k] : k \in 1..Len(line.added)} = now \ before
                            /\ {line.removed[k] : k \in 1..Len(line.removed)} = before \ now
      ]_vars

\* a poll wrote a delta with both lists empty and a delta with an added time
C6_Witness ==
    /\ cycleResult = "ok"
    /\ \E j, k \in 1..Len(cycleLog) :
         /\ cycleLog[j].kind = "delta"
         /\ cycleLog[j].added = <<>> /\ cycleLog[j].removed = <<>>
         /\ cycleLog[k].kind = "delta"
         /\ cycleLog[k].added # <<>>

\* C7: when the fetch of one date throws, the poll still fetches the other
\* dates of the window and compares each of them before it goes to sleep.
C7_OtherDatesCompared ==
    (pc = "Sleeping" /\ \E i \in 1..Len(fetchLog) : ~fetchLog[i].ok) =>
        \A k \in LOOKAHEAD_START..LOOKAHEAD_END :
           (\A i \in 1..Len(fetchLog) : ~fetchLog[i].ok => fetchLog[i].daysOut # k) =>
              /\ \E i \in 1..Len(fetchLog) : fetchLog[i].ok /\ fetchLog[i].daysOut = k
              /\ \E i \in 1..Len(snapshots) : snapshots[i].daysOut = k

\* C8: an error raised during a poll is caught by the poll's try/catch: the
\* loop goes on to the sleep unless a stop was requested, and after the sleep
\* the next poll starts unless the poll limit is used up or a signal has
\* killed the sleep.
C8_ErrorKeepsLooping ==
    [][/\ (pc \in {"FetchingCycle", "GapSleep"} /\ cycleResult' = "error") =>
            /\ pc' = IF running THEN "Sleeping" ELSE "Stopped"
            /\ pollCount' = pollCount
       /\ (pc = "Sleeping" /\ cycleResult = "error" /\ pc' # pc /\ pc' # "Crashed") =>
            /\ pollCount' = pollCount + 1
            /\ IF MAX_POLLS # 0 /\ pollCount' > MAX_POLLS
               THEN pc' = "Stopped"
               ELSE pc' = "FetchingCycle"
      ]_vars

\* the second poll is fetching after the first poll ended in an error
C8_Witness ==
    /\ pc = "FetchingCycle"
    /\ pollCount = 2
    /\ firstPoll
    /\ running

\* C9: with a dump file configured, every fetch that returned a response has
\* exactly one record in the file once its poll is over (no write failing).
C9_EveryFetchDumped ==
    (DUMP_FILE /\ pc \in {"Sleeping", "Stopped"} /\ failures = 0) =>
        \A i \in 1..Len(fetchLog) :
           fetchLog[i].ok =>
              Cardinality({j \in 1..Len(dumpFile) :
                             dumpFile[j] = [ts |-> ts, date |-> fetchLog[i].date]}) = 1

\* the outcome the comparison has for one snapshot when every write succeeds
ExpectedKind(first, store, s) ==
    IF first THEN "baseline"
    ELSE IF s.date \notin DOMAIN store THEN "new-date"
    ELSE IF store[s.date].slotCount = 0 /\ s.slotCount > 0 THEN "release"
    ELSE IF store[s.date].slotCount # s.slotCount THEN "delta"
    ELSE "unchanged"

\* C10: a failed write to the dump file is caught: the poll completes, and its
\* classifications, events and new map are those of the poll with every write
\* succeeding.
C10_DumpFailureHarmless ==
    [][(pc = "FetchingCycle" /\ dumpFailed' > 0) =>
         /\ cycleResult' = "ok"
         /\ ~firstPoll'
         /\ pc' = IF running THEN "Sleeping" ELSE "Stopped"
         /\ Len(snapshots') = LOOKAHEAD_END - LOOKAHEAD_START + 1
         /\ DOMAIN previousByDate' = {snapshots'[i].date : i \in 1..Len(snapshots')}
         /\ \A i \in 1..Len(snapshots') :
              LET s == snapshots'[i]
                  kind == ExpectedKind(firstPoll, previousByDate, s)
              IN /\ previousByDate'[s.date] = s
                 /\ Cardinality(LinesFor(s.date, cycleLog')) =
                       IF kind = "unchanged" THEN 0 ELSE 1
                 /\ \A j \in LinesFor(s.date, cycleLog') : cycleLog'[j].kind = kind
                 /\ Cardinality(EventsFor(s.date, events')) =
                       IF kind = "release" THEN 1 ELSE 0
      ]_vars

\* a poll completed with a release event although a write to the file failed
C10_Witness ==
    /\ cycleResult = "ok"
    /\ dumpFailed > 0
    /\ Len(events) > 0
    /\ Len(dumpFile) > 0

\* the number of dates of the window
WindowSize == LOOKAHEAD_END - LOOKAHEAD_START + 1

\* C11: while the local day is the one the poll started on, the fetches of the
\* poll are those of today+LOOKAHEAD_START, today+LOOKAHEAD_START+1, ... in
\* this order, one fetch per date and never more than the window holds; a poll
\* whose fetches all returned has fetched the whole window, and its snapshot
\* of today+d carries daysOut = d.
C11_WindowFetched ==
    (pc # "Idle" /\ dateList = DateListAt(today)) =>
        /\ Len(dateList) = WindowSize
        /\ \A i \in 1..Len(dateList) : dateList[i] = today + LOOKAHEAD_START + i - 1
        /\ Len(fetchLog) <= WindowSize
        /\ \A i \in 1..Len(fetchLog) :
              /\ fetchLog[i].daysOut = LOOKAHEAD_START + i - 1
              /\ fetchLog[i].date = today + fetchLog[i].daysOut
        /\ cycleResult = "ok" =>
              /\ Len(fetchLog) = WindowSize
              /\ Len(snapshots) = WindowSize
              /\ \A i \in 1..WindowSize :
                    /\ snapshots[i].daysOut = LOOKAHEAD_START + i - 1
                    /\ snapshots[i].date = today + snapshots[i].daysOut
                    /\ fetchLog[i].ok

\* a poll started after a midnight has fetched its whole window on that day
C11_Witness ==
    /\ today = 1
    /\ cycleResult = "ok"
    /\ dateList = DateListAt(today)
    /\ Len(snapshots) = WindowSize
    /\ snapshots[WindowSize].daysOut = LOOKAHEAD_END
    /\ snapshots[WindowSize].date = today + LOOKAHEAD_END

\* C12: whatever Math.random() returns, the delay between polls is at least
\* the floor of 10000 ms and at most max(10000, POLL_INTERVAL_MS +
\* POLL_JITTER_MS); with the defaults 60000 and 20000 it lies in [10000, 80000].
C12_DelayBounds ==
    random # -1 =>
        /\ delay >= MIN_DELAY_MS * RandomSteps
        /\ delay <= Max(MIN_DELAY_MS, POLL_INTERVAL_MS + POLL_JITTER_MS) * RandomSteps
        /\ (POLL_INTERVAL_MS = DefaultIntervalMs /\ POLL_JITTER_MS = DefaultJitterMs) =>
              /\ delay >= 10000 * RandomSteps
              /\ delay <= 80000 * RandomSteps

\* the floor decided a delay whose upper bound lies above it
C12_Witness ==
    /\ random # -1
    /\ POLL_INTERVAL_MS + POLL_JITTER_MS > MIN_DELAY_MS
    /\ POLL_INTERVAL_MS * RandomSteps + (2 * random - RandomSteps) * POLL_JITTER_MS
          < MIN_DELAY_MS * RandomSteps
    /\ delay = MIN_DELAY_MS * RandomSteps

\* the loop is inside a poll
InPoll == pc \in {"FetchingCycle", "GapSleep"}

\* C13: once the handler has cleared the running flag, the flag stays cleared
\* and no poll is started (the poll count stays, and a fetch is awaited only
\* within the poll already in progress); when that poll ends the loop is left
\* (Stopped) and from Stopped nothing changes any more.
C13_NoCycleAfterStop ==
    [][/\ ~running =>
            /\ ~running'
            /\ pollCount' = pollCount
            /\ ts' = ts
            /\ InPoll' => InPoll
            /\ (InPoll /\ ~InPoll') => pc' = "Stopped"
            /\ pc' \notin {"Sleeping", "Idle"}
       /\ pc = "Stopped" => UNCHANGED vars
      ]_vars

\* the loop was left by the flag during the second poll, no limit being set
C13_Witness ==
    /\ pc = "Stopped"
    /\ ~running
    /\ MAX_POLLS = 0
    /\ pollCount = 2

\* a signal arrives in this step
SignalArrives == running /\ ~sigPending /\ (~running' \/ sigPending')

\* C14: a signal that arrives during a poll does not end it: the poll goes on
\* to fetch the rest of its dates, compares them all and replaces the map, and
\* the loop is then left without the sleep between polls.
C14_SignalledCycleFinishes ==
    [][/\ (InPoll /\ SignalArrives) => (InPoll' /\ cycleResult' = "none")
       /\ (InPoll /\ (~running \/ sigPending) /\ ~InPoll') =>
            /\ cycleResult' = "ok"
            /\ Len(fetchLog') = WindowSize
            /\ Len(snapshots') = WindowSize
            /\ previousByDate' = NewMap(snapshots')
            /\ pc' = "Stopped"
      ]_vars

\* C15: with MAX_POLLS = M >= 1 no more than M polls are started, a poll that
\* ended in an error counting as one: every start of a poll adds one to the
\* poll count, whatever the outcome of the poll before, the count never goes
\* down, and after a sleep a poll is started only if fewer than M were started
\* before; otherwise the loop is left.
C15_PollBudget ==
    [][MAX_POLLS >= 1 =>
         /\ pollCount' >= pollCount
         /\ (~InPoll /\ InPoll') =>
               /\ pollCount' = pollCount + 1
               /\ pollCount' <= MAX_POLLS
               /\ ts' = pollCount'
         /\ InPoll' => pollCount' <= MAX_POLLS
         /\ (pc = "Sleeping" /\ pc' \notin {"Sleeping", "Crashed"}) =>
               IF pollCount < MAX_POLLS THEN InPoll' ELSE pc' = "Stopped"
      ]_vars

\* the limit ended a run whose last poll had ended in an error
C15_Witness ==
    /\ MAX_POLLS >= 1
    /\ pc = "Stopped"
    /\ running
    /\ pollCount = MAX_POLLS + 1
    /\ cycleResult = "error"

\* the settings of a run
Settings ==
    <<VENUE_URL, PARTY_SIZE, DUMP_FILE, MAX_POLLS, POLL_INTERVAL_MS, POLL_JITTER_MS>>

Eligible ==
    {i \in 1..Len(botResponse.slots) :
        /\ botResponse.slots[i].isAvailable
        /\ botResponse.slots[i].typename = "AvailableSlot"
        /\ botResponse.slots[i].timeOffsetMinutes >= parseTimeToMinutes(TIME_EARLIEST)
        /\ botResponse.slots[i].timeOffsetMinutes <= parseTimeToMinutes(TIME_LATEST)}

\* C18: the bot picks the first entry, in response order, that is available,
\* of kind AvailableSlot and timed within [TIME_EARLIEST, TIME_LATEST]; with no
\* such entry it exits, and never calls the slot lock or opens the booking page.
C18_FirstEligibleChosen ==
    /\ botPc \in {"Selected", "Locked", "BookingOpen", "Done"} =>
          /\ Eligible # {}
          /\ chosen = <<botResponse.slots[CHOOSE i \in Eligible :
                                              \A j \in Eligible : i <= j]>>
    /\ (botPc \notin {"Boot", "Ready"} /\ exitAt # "navigateAndExtractId"
           /\ ~botResponse.errors /\ Eligible # {}) => chosen # <<>>
    /\ (botPc \notin {"Boot", "Ready"} /\ Eligible = {}) =>
          /\ botPc = "Exited"
          /\ chosen = <<>>
          /\ lockCalls = 0
          /\ ~opened /\ ~submitted
    /\ lockCalls > 0 => chosen # <<>>

\* the first entry is too early and the second, timed at TIME_LATEST, was
\* picked and locked
C18_Witness ==
    /\ botPc = "Locked"
    /\ TIME_EARLIEST = T1830 /\ TIME_LATEST = T1830
    /\ botResponse.slots = <<SlotB, SlotA>>
    /\ chosen = <<SlotA>>
    /\ lockCalls = 1

\* no two slots of the snapshot share a hash
UniqueHashes(snap) == Cardinality(HashSet(snap.slots)) = Len(snap.slots)

\* C19: when the map holds a snapshot of the date and the hashes of the new
\* snapshot are not the same set as those of the stored one, the comparison
\* writes a release or a delta for the date, also when the two slot counts are
\* equal (no snapshot listing a hash twice).
C19_HashChangeSurfaces ==
    (/\ cmpDone
     /\ cmpSnap.date \in DOMAIN cmpStore
     /\ UniqueHashes(cmpSnap)
     /\ UniqueHashes(cmpStore[cmpSnap.date])
     /\ HashSet(cmpSnap.slots) # HashSet(cmpStore[cmpSnap.date].slots)) =>
        \E j \in 1..Len(cmpOut.lines) :
            /\ cmpOut.lines[j].date = cmpSnap.date
            /\ cmpOut.lines[j].kind \in {"release", "delta"}

\* the conditions of the five outcomes, in the order of the if/else-if chain
Conditions(first, store, s) ==
    <<first,
      s.date \notin DOMAIN store,
      s.date \in DOMAIN store /\ store[s.date].slotCount = 0 /\ s.slotCount > 0,
      s.date \in DOMAIN store /\ store[s.date].slotCount # s.slotCount,
      TRUE>>
Outcomes == <<"baseline", "new-date", "release", "delta", "unchanged">>

\* the outcome of the first condition that holds
FirstHolding(first, store, s) ==
    LET conds == Conditions(first, store, s)
        k == CHOOSE i \in 1..5 : conds[i] /\ \A j \in 1..(i - 1) : ~conds[j]
    IN Outcomes[k]

\* C20: a poll that completes classifies each of its snapshots once, as the
\* first of baseline, new date, release, delta, unchanged whose condition
\* holds for (firstPoll, the map's entry or its absence, the snapshot): an
\* unchanged date gets no line, any other date one line of its kind, and only
\* a release gets an event.
C20_OneOutcomeInOrder ==
    [][Completes =>
         /\ Len(snapshots') = WindowSize
         /\ \A i \in 1..Len(snapshots') :
              LET s == snapshots'[i]
                  kind == FirstHolding(firstPoll, previousByDate, s)
              IN /\ Cardinality(LinesFor(s.date, cycleLog')) =
                       IF kind = "unchanged" THEN 0 ELSE 1
                 /\ \A j \in LinesFor(s.date, cycleLog') : cycleLog'[j].kind = kind
                 /\ Cardinality(EventsFor(s.date, events')) =
                       IF kind = "release" THEN 1 ELSE 0
         /\ \A j \in 1..Len(cycleLog') :
              \E i \in 1..Len(snapshots') : cycleLog'[j].date = snapshots'[i].date
      ]_vars

\* a completed poll wrote a release for one date and a delta for the other
C20_Witness ==
    /\ cycleResult = "ok"
    /\ Len(cycleLog) = 2
    /\ {cycleLog[1].kind, cycleLog[2].kind} = {"release", "delta"}
    /\ Len(events) = 1

\* C21: a fetch that fails does not end the poll: the date gets a snapshot
\* with slotCount 0, which a completed poll has compared and stored.
C21_FailedFetchIsZeroSlots ==
    \A i \in 1..Len(fetchLog) :
        ~fetchLog[i].ok =>
            /\ cycleResult # "error"
            /\ LET pushed == IF cycleResult = "ok" THEN snapshots ELSE qSnapshots
               IN \E j \in 1..Len(pushed) :
                      /\ pushed[j].date = fetchLog[i].date
                      /\ pushed[j].slotCount = 0
            /\ cycleResult = "ok" =>
                  /\ fetchLog[i].date \in DOMAIN previousByDate
                  /\ previousByDate[fetchLog[i].date].slotCount = 0

\* C22: the map changes only in the step that completes a poll, and there it
\* becomes the map of that poll's snapshots in one go; the lines of that step
\* are those of comparing each snapshot with the map as it was before the
\* step, which is the map the last completed poll left.
C22_StoreReplacedAfterComparison ==
    [][/\ previousByDate' # previousByDate => Completes
       /\ Completes =>
            /\ DOMAIN previousByDate' = {snapshots'[i].date : i \in 1..Len(snapshots')}
            /\ \A i \in 1..Len(snapshots') :
                 LET s == snapshots'[i]
                     kind == FirstHolding(firstPoll, previousByDate, s)
                 IN /\ previousByDate'[s.date] = s
                    /\ Cardinality(LinesFor(s.date, cycleLog')) =
                          IF kind = "unchanged" THEN 0 ELSE 1
                    /\ \A j \in LinesFor(s.date, cycleLog') :
                          /\ cycleLog'[j].kind = kind
                          /\ kind = "delta" =>
                                cycleLog'[j].prevCount = previousByDate[s.date].slotCount
      ]_vars

\* a completed poll wrote a delta against the old entry of a date whose entry
\* now is the new snapshot
C22_Witness ==
    /\ cycleResult = "ok"
    /\ \E j \in 1..Len(cycleLog) :
         /\ cycleLog[j].kind = "delta"
         /\ cycleLog[j].date \in DOMAIN previousByDate
         /\ cycleLog[j].prevCount # previousByDate[cycleLog[j].date].slotCount
         /\ cycleLog[j].slotCount = previousByDate[cycleLog[j].date].slotCount

\* C23: once a poll has completed the keys of the map are exactly the dates
\* that poll fetched, each with the snapshot that poll made of it, so a date
\* that has left the window is no longer a key; the map never has more
\* entries than the window has days.
C23_StoreIsLastCycle ==
    /\ Cardinality(DOMAIN previousByDate) <= WindowSize
    /\ cycleResult = "ok" =>
         /\ DOMAIN previousByDate = {fetchLog[i].date : i \in 1..Len(fetchLog)}
         /\ \A i \in 1..Len(fetchLog) :
              \E j \in 1..Len(snapshots) :
                  /\ snapshots[j].date = fetchLog[i].date
                  /\ previousByDate[fetchLog[i].date] = snapshots[j]

\* the second poll completed after midnight: it compared the date the first
\* poll fetched last with its stored snapshot, and the date the first poll
\* fetched first is no longer a key
C23_Witness ==
    /\ cycleResult = "ok"
    /\ pollCount = 2
    /\ LOOKAHEAD_START \notin DOMAIN previousByDate
    /\ \E j \in 1..Len(cycleLog) :
         /\ cycleLog[j].date = LOOKAHEAD_START + 1
         /\ cycleLog[j].kind \in {"delta", "release"}

\* the place of a date in the fetches of the poll
FetchIndex(date, log) == CHOOSE i \in 1..Len(log) : log[i].date = date

\* C24: the dump file only grows at its end: every step leaves the records
\* it had where they were, and the records a poll adds are one per append
\* that succeeded, stamped with the poll's ts, in the order of its fetches.
C24_DumpAppendOnly ==
    [][/\ Len(dumpFile') >= Len(dumpFile)
       /\ SubSeq(dumpFile', 1, Len(dumpFile)) = dumpFile
       /\ dumpFile' # dumpFile =>
            LET new == SubSeq(dumpFile', Len(dumpFile) + 1, Len(dumpFile'))
            IN /\ Len(new) = Len(fetchLog') - dumpFailed'
               /\ \A a \in 1..Len(new) :
                    /\ new[a].ts = ts
                    /\ \E i \in 1..Len(fetchLog') : fetchLog'[i].date = new[a].date
               /\ \A a, b \in 1..Len(new) :
                    a < b => FetchIndex(new[a].date, fetchLog')
                               < FetchIndex(new[b].date, fetchLog')
      ]_vars

\* two polls have each written all their records, the second after the first
C24_Witness ==
    /\ cycleResult = "ok"
    /\ pollCount = 2
    /\ Len(dumpFile) = 2 * WindowSize
    /\ dumpFile[1].ts = 1
    /\ dumpFile[Len(dumpFile)].ts = 2

\* the fetches and the gaps of a trace
FetchesOf(trace) == {i \in 1..Len(trace) : trace[i].kind = "fetch"}
GapsOf(trace) == {i \in 1..Len(trace) : trace[i].kind = "gap"}

\* C25: a call of queryAllDates never runs under a window whose start is past
\* its end: LOOKAHEAD_START <= LOOKAHEAD_END, and a call that returns has
\* fetched a date.
C25_WindowNeverEmpty ==
    qaPc # "Idle" =>
        /\ lookaheadStart <= lookaheadEnd
        /\ qaPc = "Returned" => FetchesOf(qaTrace) # {}

C27_SignalInterruptsSleep ==
    [][/\ (pc = "Sleeping" /\ SignalArrives) => pc' \in {"Sleeping", "Stopped"}
       /\ (pc = "Sleeping" /\ sigPending) => pc' \in {"Sleeping", "Stopped"}
      ]_vars

\* the loop runs under a limit, or a signal has been delivered to it (within
\* the polls explored)
WillStop ==
    /\ pc \in {"FetchingCycle", "GapSleep", "Sleeping"}
    /\ \/ MAX_POLLS > 0 /\ MAX_POLLS < MaxCycles
       \/ ~running
       \/ sigPending /\ (pc = "GapSleep" \/ pollCount < MaxCycles)

\* C28: when MAX_POLLS is set or a signal has been delivered, and every fetch
\* and every sleep returns, the loop reaches Stopped; Stopped is entered only
\* where the loop is left, by the limit or by the cleared flag.
C28_LoopTerminates ==
    /\ [](WillStop => <>(pc = "Stopped"))
    /\ [][(pc # "Stopped" /\ pc' = "Stopped") =>
            /\ pc \in {"FetchingCycle", "Sleeping"}
            /\ \/ ~running'
               \/ MAX_POLLS > 0 /\ pollCount' > MAX_POLLS
         ]_vars

\* the loop was left by the limit after its polls, no signal having come
C28_Witness ==
    /\ pc = "Stopped"
    /\ running /\ ~sigPending
    /\ MAX_POLLS > 0
    /\ pollCount = MAX_POLLS + 1

KeptPlaces(resp) ==
    {i \in 1..Len(resp) : resp[i].isAvailable /\ resp[i].typename = "AvailableSlot"}
KeptPlace(resp, j) ==
    CHOOSE i \in KeptPlaces(resp) :
        Cardinality({k \in KeptPlaces(resp) : k < i}) = j - 1

\* t is the text HH:MM of the minute offset mins
IsHHMM(t, mins) ==
    /\ Len(t) = 5
    /\ t[3] = 58
    /\ \A i \in {1, 2, 4, 5} : t[i] \in 48..57
    /\ (t[1] - 48) * 10 + (t[2] - 48) = mins \div 60
    /\ (t[4] - 48) * 10 + (t[5] - 48) = mins % 60

\* C30: the slots of a snapshot are the entries of the response that are
\* marked available and of the AvailableSlot kind, in payload order, each as
\* its time HH:MM and its hash, every other entry being left out; slotCount
\* is their number.
C30_SnapshotKeepsAvailable ==
    snapDone =>
        /\ snapshot.slotCount = Cardinality(KeptPlaces(responseSlots))
        /\ Len(snapshot.slots) = snapshot.slotCount
        /\ \A j \in 1..Len(snapshot.slots) :
             LET entry == responseSlots[KeptPlace(responseSlots, j)]
             IN /\ DOMAIN snapshot.slots[j] = {"time", "hash"}
                /\ snapshot.slots[j].hash = entry.slotHash
                /\ IsHHMM(snapshot.slots[j].time, entry.timeOffsetMinutes)

\* of three entries, the one of another kind was dropped although it is
\* marked available, and the two kept are in payload order
C30_Witness ==
    /\ snapDone
    /\ Len(responseSlots) = 3
    /\ responseSlots[2].isAvailable /\ responseSlots[2].typename # "AvailableSlot"
    /\ snapshot.slotCount = 2
    /\ snapshot.slots[1].hash = responseSlots[1].slotHash
    /\ snapshot.slots[2].hash = responseSlots[3].slotHash
    /\ snapshot.slots[1].hash # snapshot.slots[2].hash

\* C31: whatever the body of a response, queryDateAvailability does not
\* throw, and a body that misses a level of the expected nesting gives no
\* slot.
C31_OddBodyIsZeroSlots ==
    qdaDone =>
        /\ ~qdaResult.threw
        /\ responseBody \in OddBodies => qdaResult.slots = <<>>

\* C32: no snapshot of a poll and no snapshot held in the map lists a hash
\* twice, whatever the responses were.
C32_HashesUnique ==
    /\ \A i \in 1..Len(qSnapshots) : UniqueHashes(qSnapshots[i])
    /\ \A i \in 1..Len(snapshots) : UniqueHashes(snapshots[i])
    /\ \A date \in DOMAIN previousByDate : UniqueHashes(previousByDate[date])

\* C33: a poll that ends in an error leaves the map and firstPoll as they
\* were and has logged no line and no event; the two change only in the step
\* that completes a poll, so a completed poll compares with the map of the
\* last completed poll, and a date that had no slot there and has some now
\* gets its release event, however many polls failed in between.
C33_FailedCycleLeavesStore ==
    [][/\ (InPoll /\ cycleResult' = "error") =>
            /\ previousByDate' = previousByDate
            /\ firstPoll' = firstPoll
            /\ cycleLog' = <<>>
            /\ events' = <<>>
       /\ ~Completes =>
            /\ previousByDate' = previousByDate
            /\ firstPoll' = firstPoll
       /\ Completes =>
            \A i \in 1..Len(snapshots') :
               LET s == snapshots'[i]
               IN (/\ ~firstPoll
                   /\ s.date \in DOMAIN previousByDate
                   /\ previousByDate[s.date].slotCount = 0
                   /\ s.slotCount > 0) =>
                     Cardinality(EventsFor(s.date, events')) = 1
      ]_vars

\* the second poll has ended in an error; the map still holds the first
\* poll's snapshots, one of them without a slot
C33_Witness ==
    /\ pc = "Sleeping"
    /\ cycleResult = "error"
    /\ pollCount = 2
    /\ ~firstPoll
    /\ \E date \in DOMAIN previousByDate : previousByDate[date].slotCount = 0

\* C34: while firstPoll is set the map is empty; firstPoll is cleared only
\* by the step that completes a poll and is never set again; the poll that
\* completes with firstPoll set, whatever polls failed before it, logs a
\* baseline line for each of its dates and no event.
C34_FirstPollUntilCompleted ==
    [][/\ firstPoll => previousByDate = <<>>
       /\ firstPoll' => previousByDate' = <<>>
       /\ firstPoll' # firstPoll => (firstPoll /\ Completes)
       /\ Completes => ~firstPoll'
       /\ (Completes /\ firstPoll) =>
            /\ events' = <<>>
            /\ Len(cycleLog') = Len(snapshots')
            /\ \A j \in 1..Len(cycleLog') :
                 /\ cycleLog'[j].kind = "baseline"
                 /\ cycleLog'[j].date = snapshots'[j].date
      ]_vars

\* the first poll failed; the second completed as the baseline, with slots
\* on a date and no event
C34_Witness ==
    /\ cycleResult = "ok"
    /\ pollCount = 2
    /\ ~firstPoll
    /\ events = <<>>
    /\ Len(cycleLog) = WindowSize
    /\ \A j \in 1..Len(cycleLog) : cycleLog[j].kind = "baseline"
    /\ \E i \in 1..Len(snapshots) : snapshots[i].slotCount > 0

\* C35: with MAX_POLLS = 0 the loop is left before its first fetch: no poll
\* is ever in progress and the loop never sleeps.
C35_ZeroLimitNoPoll ==
    MAX_POLLS = 0 =>
        /\ pc \notin {"FetchingCycle", "GapSleep", "Sleeping"}
        /\ fetchLog = <<>>

\* C36: the dates a poll fetches are those of the list it announced at its
\* start, in that order, and each is the day after the one before.
C36_OneReferenceDay ==
    /\ Len(fetchLog) <= Len(dateList)
    /\ \A i \in 1..Len(fetchLog) :
         /\ fetchLog[i].date = dateList[i]
         /\ i > 1 => fetchLog[i].date = fetchLog[i - 1].date + 1

C39_SubmitOnlyAfterLock ==
    /\ opened => (lockCalls = 1 /\ lock = "success" /\ chosen # <<>>)
    /\ submitted => (opened /\ lock = "success")

====
